---- MODULE Spec2Model ----
(***************************************************************************)
(* Model of GatewayConnection (src/src/lib/gateway.ts): the WebSocket      *)
(* connection manager with its reconnect backoff and heartbeat.            *)
(*                                                                         *)
(* The connection object's private fields are variables; the browser side  *)
(* (the sockets the object constructed, the timers it armed) is part of    *)
(* the state too, because socket callbacks and timers keep running whether *)
(* or not the object still holds their handle.                             *)
(*                                                                         *)
(* Every method is an operator from a memory record to a memory record,    *)
(* composed in the order of the statements of the source; an action        *)
(* applies one public method, one socket callback or one timer callback    *)
(* to the current memory and commits the result.                           *)
(***************************************************************************)
EXTENDS Naturals, Sequences, FiniteSets, Bags

VARIABLES
  state,                  \* this.state
  ws,                     \* this.ws: the socket it refers to, NoSocket for null
  detached,               \* bag of the sockets not yet closed that this.ws no longer refers to
  reconnectAttempts,      \* this.reconnectAttempts
  maxReconnectAttempts,   \* this.maxReconnectAttempts (readonly)
  reconnectTimer,         \* this.reconnectTimer: "null", "armed" or "stale"
  intentionalDisconnect,  \* this.intentionalDisconnect
  heartbeatTimer,         \* this.heartbeatTimer: "null" or "armed"
  heartbeatTimeoutTimer,  \* this.heartbeatTimeoutTimer: "null", "armed" or "stale"
  orphanReconnectTimers,  \* armed reconnect timeouts whose handle was overwritten
  orphanHeartbeatTimers,  \* armed heartbeat intervals whose handle was overwritten
  orphanHeartbeatTimeouts,\* armed heartbeat timeouts whose handle was overwritten
  webSocketDefined,       \* typeof WebSocket !== "undefined"
  constructorThrows,      \* new WebSocket(this.url) raises here (a URL or an origin
                          \* the browser refuses): the same at every call
  emitted,                \* events passed to _emit by the last step, in order
  sent,                   \* frames handed to ws.send by the last step
  constructed,            \* sockets constructed by the last step
  uncaught,               \* the last step's callback ended by throwing
  op,                     \* the last step: its name and, for a socket event, the socket
  afterDisconnect,        \* disconnect() has returned and connect() was not called since
  heartbeatStopped,       \* disconnect() or a close callback ran and no socket opened since
  failedInEpisode,        \* reconnect_failed events since the last connect(), open or disconnect()
  awaitingPong,           \* a ping was sent; no pong was received and no heartbeat
                          \* timeout has fired since
  listeners,              \* this.listeners: per event name, the Set of callbacks in
                          \* insertion order
  handles,                \* bag of the unsubscribe functions returned by _on and not
                          \* yet called: the event and the callback each closes over
  invoked,                \* listener invocations of the last step, in order
  logged,                 \* listener exceptions the last step caught and logged
  store,                  \* useStore: the fields of the application store the bridge writes
  bridge,                 \* useAutoSync: mountedRef and the three refs that mirror the store
  startedFrom,            \* the store's activeSessions before the last step, when that step
                          \* was a session.start handled by the bridge
  logHistory,             \* length of store.logs when a writer other than addLog last set
                          \* it, and the log.entry events handled since
  delivered,              \* payload of the envelope the last step delivered
  resumed                 \* connect() opened a socket after a reconnect_failed event, and
                          \* no socket has opened, closed or been replaced since

\* The fields of the connection object and of the browser that its methods change.
gatewayVars == << state, ws, detached, reconnectAttempts, maxReconnectAttempts,
                  reconnectTimer, intentionalDisconnect, heartbeatTimer,
                  heartbeatTimeoutTimer, orphanReconnectTimers,
                  orphanHeartbeatTimers, orphanHeartbeatTimeouts >>

vars == << gatewayVars, webSocketDefined, constructorThrows, emitted, sent, constructed, uncaught, op,
           afterDisconnect, heartbeatStopped, failedInEpisode, awaitingPong,
           listeners, handles, invoked, logged, store, bridge, startedFrom, logHistory, delivered,
           resumed >>

-----------------------------------------------------------------------------
\* Bounds of the model.
MaxSockets == 2            \* sockets constructed and not yet closed
MaxOrphanTimers == 1       \* armed timers of one kind that lost their handle
MaxReconnectAttempts == 3  \* the constructor's maxReconnectAttempts argument
MaxListeners == 2          \* unsubscribe functions returned and not yet called
MaxSessions == 2           \* value of the active-session counter
MaxEntries == 2            \* length of the cost-entry list
MaxLogEvents == 502        \* log.entry events received

\* Program constants.
HEARTBEAT_INTERVAL_MS == 15000
HEARTBEAT_TIMEOUT_MS == 5000
BASE_RECONNECT_DELAY_MS == 1000
MAX_RECONNECT_DELAY_MS == 30000
MAX_RECONNECT_ATTEMPTS == 10
JITTER_RANGE_MS == 500
CLOSE_NORMAL == 1000
CLOSE_HEARTBEAT == 1001
LOG_CAP == 500
COST_CAP == 500

ConnectionState == {"disconnected", "connecting", "connected", "error"}

\* Math.random() * 500 lies in [0, 500): the two ends of the range.
Jitters == {0, JITTER_RANGE_MS - 1}

\* Inbound frames, by what JSON.parse and the dispatch make of them.
\* The last two are envelopes whose type is the name of an event the
\* connection emits itself.
Frames == {"not_json", "json_null", "json_number", "no_type", "pong", "agent.status",
           "disconnect", "message"}

\* The event names listeners are registered for.
ListenerEvents == {"message", "agent.status", "pong", "disconnect", "raw_message"}

\* The event names the store bridge registers a listener for.
BridgeEvents == {"connect", "disconnect", "reconnecting", "agent.status", "task.created",
                 "task.updated", "log.entry", "session.start", "session.end",
                 "cron.triggered", "cost.update"}

AllEvents == ListenerEvents \cup BridgeEvents

\* Callbacks of the application: one returns, one throws.
Callbacks == {"cb", "cbThrows"}
Throws(cb) == cb = "cbThrows"

\* The frames the connection's own state depends on: the liveness reply and
\* an ordinary envelope.
LifecycleFrames == {"pong", "agent.status"}

Min(a, b) == IF a <= b THEN a ELSE b

RECURSIVE Pow2(_)
Pow2(n) == IF n = 0 THEN 1 ELSE 2 * Pow2(n - 1)

-----------------------------------------------------------------------------
\* A socket: its readyState and the code close() was called with.
NoSocket == [readyState |-> "NONE", closeCode |-> 0]
NewSocket == [readyState |-> "CONNECTING", closeCode |-> 0]

\* Events: one record shape for every event name; the fields an event does
\* not carry keep their default.
\* arg: what the listener is called with, the event's own payload object
\* ("own") or a part of an inbound frame ("payload", "envelope", "data").
Ev(name) == [ev |-> name, intentional |-> FALSE, attempt |-> 0, delay |-> 0,
             state |-> "", code |-> 0, arg |-> "own"]

\* The memory the methods work on.
Cur == [state |-> state, ws |-> ws, detached |-> detached,
        reconnectAttempts |-> reconnectAttempts,
        maxReconnectAttempts |-> maxReconnectAttempts,
        reconnectTimer |-> reconnectTimer,
        intentionalDisconnect |-> intentionalDisconnect,
        heartbeatTimer |-> heartbeatTimer,
        heartbeatTimeoutTimer |-> heartbeatTimeoutTimer,
        orphanReconnectTimers |-> orphanReconnectTimers,
        orphanHeartbeatTimers |-> orphanHeartbeatTimers,
        orphanHeartbeatTimeouts |-> orphanHeartbeatTimeouts,
        emitted |-> << >>, sent |-> << >>, constructed |-> 0, uncaught |-> FALSE,
        listeners |-> listeners, invoked |-> << >>, logged |-> 0]

\* Variant: the first listener that throws ends the loop and the exception
\* leaves _emit.
RECURSIVE Deliver_stopsAtThrow(_, _, _)
Deliver_stopsAtThrow(m, cbs, e) ==
  IF cbs = << >> THEN m
  ELSE LET m1 == [m EXCEPT !.invoked =
                     Append(@, [cb |-> Head(cbs), ev |-> e.ev, arg |-> e.arg])]
       IN IF Throws(Head(cbs)) THEN [m1 EXCEPT !.uncaught = TRUE]
          ELSE Deliver_stopsAtThrow(m1, Tail(cbs), e)

\* for (const cb of callbacks) { try { cb(payload) } catch { console.error } }
RECURSIVE Deliver(_, _, _)
Deliver(m, cbs, e) ==
  IF cbs = << >> THEN m
  ELSE LET m1 == [m EXCEPT !.invoked =
                     Append(@, [cb |-> Head(cbs), ev |-> e.ev, arg |-> e.arg])]
           m2 == IF Throws(Head(cbs)) THEN [m1 EXCEPT !.logged = @ + 1] ELSE m1
       IN Deliver(m2, Tail(cbs), e)

\* this.listeners.get(event): undefined and the empty Set deliver alike.
_emit(m, e) ==
  LET m1 == [m EXCEPT !.emitted = Append(@, e)]
  IN Deliver(m1, IF e.ev \in DOMAIN m.listeners THEN m.listeners[e.ev] ELSE << >>, e)

\* Variant: new registrations go to the front.
_on_prepends(ls, event, callback) ==
  IF \E i \in 1..Len(ls[event]) : ls[event][i] = callback THEN ls
  ELSE [ls EXCEPT ![event] = << callback >> \o @]

\* this.listeners.get(event).add(callback): a Set keeps one copy of a
\* callback, at the place of its first insertion.
_on(ls, event, callback) ==
  IF \E i \in 1..Len(ls[event]) : ls[event][i] = callback THEN ls
  ELSE [ls EXCEPT ![event] = Append(@, callback)]

\* The function _on returns: this.listeners.get(event)?.delete(callback).
unsubscribe(ls, event, callback) ==
  [ls EXCEPT ![event] = SelectSeq(@, LAMBDA c : c # callback)]

_setState(m, s) ==
  _emit([m EXCEPT !.state = s], [Ev("state_change") EXCEPT !.state = s])

_clearReconnectTimer(m) ==
  IF m.reconnectTimer # "null" THEN [m EXCEPT !.reconnectTimer = "null"] ELSE m

_clearHeartbeatTimeout(m) ==
  IF m.heartbeatTimeoutTimer # "null"
  THEN [m EXCEPT !.heartbeatTimeoutTimer = "null"]
  ELSE m

\* Variant: stops the interval and leaves the timeout of the last ping armed.
_clearHeartbeat_keepsTimeout(m) ==
  IF m.heartbeatTimer # "null" THEN [m EXCEPT !.heartbeatTimer = "null"] ELSE m

_clearHeartbeat(m) ==
  _clearHeartbeatTimeout(
    IF m.heartbeatTimer # "null" THEN [m EXCEPT !.heartbeatTimer = "null"] ELSE m)

\* this.ws.close(code): a socket that is connecting or open starts closing
\* with that code; on any other socket the call does nothing.
SocketCloseCall(m, code) ==
  IF m.ws.readyState \in {"CONNECTING", "OPEN"}
  THEN [m EXCEPT !.ws = [readyState |-> "CLOSING", closeCode |-> code]]
  ELSE m

\* this.ws = value: the socket the field referred to lives on in the browser
\* until its close event, unless it is closed already.
AssignWs(m, value) ==
  [m EXCEPT !.ws = value,
            !.detached = IF m.ws.readyState \in {"NONE", "CLOSED"}
                         THEN @
                         ELSE @ (+) SetToBag({m.ws})]

\* setTimeout / setInterval assigned to a handle field: a timer that field
\* still held armed keeps running without a handle.
ArmReconnectTimer(m) ==
  [m EXCEPT !.orphanReconnectTimers =
              IF m.reconnectTimer = "armed" THEN @ + 1 ELSE @,
            !.reconnectTimer = "armed"]

ArmHeartbeatTimer(m) ==
  [m EXCEPT !.orphanHeartbeatTimers =
              IF m.heartbeatTimer = "armed" THEN @ + 1 ELSE @,
            !.heartbeatTimer = "armed"]

ArmHeartbeatTimeout(m) ==
  [m EXCEPT !.orphanHeartbeatTimeouts =
              IF m.heartbeatTimeoutTimer = "armed" THEN @ + 1 ELSE @,
            !.heartbeatTimeoutTimer = "armed"]

_startHeartbeat(m) == ArmHeartbeatTimer(_clearHeartbeat(m))

\* Variant: the exponential delay without the cap.
BackoffBase_uncapped(attempts) == BASE_RECONNECT_DELAY_MS * Pow2(attempts - 1)

\* Math.min(BASE * 2^(attempts - 1), MAX)
BackoffBase(attempts) ==
  Min(BASE_RECONNECT_DELAY_MS * Pow2(attempts - 1), MAX_RECONNECT_DELAY_MS)

\* Variant: when the attempts are used up nothing is emitted.
_scheduleReconnect_silent(m, jitter) ==
  IF m.reconnectAttempts >= m.maxReconnectAttempts
  THEN m
  ELSE LET m1 == [m EXCEPT !.reconnectAttempts = @ + 1]
           delay == BackoffBase(m1.reconnectAttempts) + jitter
       IN ArmReconnectTimer(
            _emit(m1, [Ev("reconnecting") EXCEPT !.attempt = m1.reconnectAttempts,
                                                 !.delay = delay]))

_scheduleReconnect(m, jitter) ==
  IF m.reconnectAttempts >= m.maxReconnectAttempts
  THEN _emit(m, [Ev("reconnect_failed") EXCEPT !.attempt = m.reconnectAttempts])
  ELSE LET m1 == [m EXCEPT !.reconnectAttempts = @ + 1]
           delay == BackoffBase(m1.reconnectAttempts) + jitter
       IN ArmReconnectTimer(
            _emit(m1, [Ev("reconnecting") EXCEPT !.attempt = m1.reconnectAttempts,
                                                 !.delay = delay]))

\* throws: new WebSocket(url) raised.
_openSocket(m, throws, jitter) ==
  LET m1 == _setState(m, "connecting") IN
  IF throws
  THEN LET m2 == _emit(_setState(m1, "error"), Ev("error")) IN
       IF ~m2.intentionalDisconnect THEN _scheduleReconnect(m2, jitter) ELSE m2
  ELSE [AssignWs(m1, NewSocket) EXCEPT !.constructed = @ + 1]

\* Variant: only an established connection makes connect() return early.
connect_connectedOnly(m, defined, throws, jitter) ==
  IF m.state = "connected" THEN m
  ELSE IF ~defined THEN m
  ELSE _openSocket([m EXCEPT !.intentionalDisconnect = FALSE], throws, jitter)

connect(m, defined, throws, jitter) ==
  IF m.state = "connected" \/ m.state = "connecting" THEN m
  ELSE IF ~defined THEN m
  ELSE _openSocket([m EXCEPT !.intentionalDisconnect = FALSE], throws, jitter)

disconnect(m) ==
  LET m1 == [m EXCEPT !.intentionalDisconnect = TRUE]
      m2 == _clearReconnectTimer(m1)
      m3 == _clearHeartbeat(m2)
      m4 == _setState(m3, "disconnected")
      m5 == IF m4.ws # NoSocket
            THEN AssignWs(SocketCloseCall(m4, CLOSE_NORMAL), NoSocket)
            ELSE m4
  IN _emit(m5, [Ev("disconnect") EXCEPT !.intentional = TRUE])

\* Variant: send() hands the frame to whatever socket this.ws refers to.
send_anySocket(m) ==
  IF m.ws = NoSocket THEN m ELSE [m EXCEPT !.sent = Append(@, "message")]

send(m) ==
  IF m.ws = NoSocket \/ m.ws.readyState # "OPEN" THEN m
  ELSE [m EXCEPT !.sent = Append(@, "message")]

-----------------------------------------------------------------------------
\* Socket callbacks installed by _openSocket.

onopen(m) ==
  LET m1 == [m EXCEPT !.reconnectAttempts = 0]
      m2 == _setState(m1, "connected")
      m3 == _startHeartbeat(m2)
  IN _emit(m3, Ev("connect"))

\* Variant: an error event starts the attempt count again.
onerror_resetsAttempts(m) ==
  _emit(_setState([m EXCEPT !.reconnectAttempts = 0], "error"), Ev("error"))

onerror(m) == _emit(_setState(m, "error"), Ev("error"))

\* code: event.code of the close event.
onclose(m, code, jitter) ==
  LET m1 == _clearHeartbeat(m)
      m2 == AssignWs(m1, NoSocket)
      m3 == _setState(m2, "disconnected")
      m4 == _emit(m3, [Ev("disconnect") EXCEPT
                         !.intentional = m3.intentionalDisconnect, !.code = code])
  IN IF ~m4.intentionalDisconnect THEN _scheduleReconnect(m4, jitter) ELSE m4

\* Variant: a pong is dispatched like any other typed frame.
_handleMessage_forwardsPong(m, frame) ==
  IF frame = "not_json" THEN _emit(m, [Ev("raw_message") EXCEPT !.arg = "data"])
  ELSE IF frame = "json_null" THEN [m EXCEPT !.uncaught = TRUE]
  ELSE LET type == IF frame \in {"json_number", "no_type"} THEN "undefined" ELSE frame
       IN _emit(_emit(m, [Ev(type) EXCEPT !.arg = "payload"]),
                [Ev("message") EXCEPT !.arg = "envelope"])

\* Variant: text that is not JSON is reported and then dispatched as well.
_handleMessage_forwardsRaw(m, frame) ==
  IF frame = "json_null" THEN [m EXCEPT !.uncaught = TRUE]
  ELSE IF frame = "pong" THEN _clearHeartbeatTimeout(m)
  ELSE LET type == IF frame \in {"json_number", "no_type", "not_json"}
                   THEN "undefined" ELSE frame
           m1 == IF frame = "not_json"
                 THEN _emit(m, [Ev("raw_message") EXCEPT !.arg = "data"]) ELSE m
       IN _emit(_emit(m1, [Ev(type) EXCEPT !.arg = "payload"]),
                [Ev("message") EXCEPT !.arg = "envelope"])

\* Variant: a pong clears the timeout and is passed on to message listeners.
_handleMessage_announcesPong(m, frame) ==
  IF frame = "not_json" THEN _emit(m, [Ev("raw_message") EXCEPT !.arg = "data"])
  ELSE IF frame = "json_null" THEN [m EXCEPT !.uncaught = TRUE]
  ELSE IF frame = "pong"
    THEN _emit(_clearHeartbeatTimeout(m), [Ev("message") EXCEPT !.arg = "envelope"])
  ELSE LET type == IF frame \in {"json_number", "no_type"} THEN "undefined" ELSE frame
       IN _emit(_emit(m, [Ev(type) EXCEPT !.arg = "payload"]),
                [Ev("message") EXCEPT !.arg = "envelope"])

\* Variant: both channels are given the full envelope.
_handleMessage_envelopeOnly(m, frame) ==
  IF frame = "not_json" THEN _emit(m, [Ev("raw_message") EXCEPT !.arg = "data"])
  ELSE IF frame = "json_null" THEN [m EXCEPT !.uncaught = TRUE]
  ELSE IF frame = "pong" THEN _clearHeartbeatTimeout(m)
  ELSE LET type == IF frame \in {"json_number", "no_type"} THEN "undefined" ELSE frame
       IN _emit(_emit(m, [Ev(type) EXCEPT !.arg = "envelope"]),
                [Ev("message") EXCEPT !.arg = "envelope"])

\* JSON.parse(event.data) and the dispatch on parsed.type. JSON.parse raises on
\* text that is not JSON; reading .type of null raises a TypeError, which
\* nothing catches; a number or an object without a type has type undefined.
_handleMessage(m, frame) ==
  IF frame = "not_json" THEN _emit(m, [Ev("raw_message") EXCEPT !.arg = "data"])
  ELSE IF frame = "json_null" THEN [m EXCEPT !.uncaught = TRUE]
  ELSE IF frame = "pong" THEN _clearHeartbeatTimeout(m)
  ELSE LET type == IF frame \in {"json_number", "no_type"} THEN "undefined" ELSE frame
       IN _emit(_emit(m, [Ev(type) EXCEPT !.arg = "payload"]),
                [Ev("message") EXCEPT !.arg = "envelope"])

\* Timer callbacks.

\* Variant: the timer callback opens a socket whatever the flag says.
reconnectTimerCallback_unguarded(m, throws, jitter) == _openSocket(m, throws, jitter)

reconnectTimerCallback(m, throws, jitter) ==
  IF ~m.intentionalDisconnect THEN _openSocket(m, throws, jitter) ELSE m

\* Variant: the timeout reports the stale connection and leaves the socket open.
heartbeatTimeoutCallback_emitsOnly(m) == _emit(m, Ev("heartbeat_timeout"))

heartbeatTimeoutCallback(m) ==
  LET m1 == _emit(m, Ev("heartbeat_timeout"))
  IN IF m1.ws # NoSocket THEN SocketCloseCall(m1, CLOSE_HEARTBEAT) ELSE m1

heartbeatIntervalCallback(m) ==
  IF m.ws = NoSocket \/ m.ws.readyState # "OPEN" THEN m
  ELSE ArmHeartbeatTimeout([m EXCEPT !.sent = Append(@, "ping")])

-----------------------------------------------------------------------------
\* The application store (useStore) and the store bridge (useAutoSync).
\* Records of the store are functions from field names to values.

\* { ...a, ...data }
Merge(a, data) ==
  [k \in DOMAIN a \cup DOMAIN data |-> IF k \in DOMAIN data THEN data[k] ELSE a[k]]

\* The fields of record a other than those in keys: const { agentId, ...changes }
Without(a, keys) == [k \in DOMAIN a \ keys |-> a[k]]

\* array.slice(0, n)
Slice(seq, n) == SubSeq(seq, 1, Min(Len(seq), n))

\* array.map(f)
MapSeq(seq, F(_)) == [i \in 1..Len(seq) |-> F(seq[i])]

setGateway(s, data) == [s EXCEPT !.gateway = Merge(@, data)]

\* updateAgent that puts the event's fields in place of the record.
updateAgent_replaces(s, id, data) ==
  [s EXCEPT !.agents = MapSeq(@, LAMBDA a : IF a.id = id
                                            THEN Merge([id |-> a.id, name |-> "", status |-> "",
                                                        currentTask |-> ""], data)
                                            ELSE a)]

updateAgent(s, id, data) ==
  [s EXCEPT !.agents = MapSeq(@, LAMBDA a : IF a.id = id THEN Merge(a, data) ELSE a)]

\* addLog without the slice: the list grows with every entry.
addLog_uncapped(s, log) == [s EXCEPT !.logs = << log >> \o @]

addLog(s, log) == [s EXCEPT !.logs = Slice(<< log >> \o @, LOG_CAP)]

setCostEntries(s, entries) == [s EXCEPT !.costEntries = entries]

setCronJobs(s, jobs) == [s EXCEPT !.cronJobs = jobs]

\* The store and the bridge together: what a listener of the bridge works on.
World == [store |-> store, bridge |-> bridge]

\* Listeners of the bridge; each returns at once when the bridge is unmounted.
\* The listeners of reconnecting, task.created and task.updated write
\* component state and the task list, which are not part of this model.
onConnect(w) == [w EXCEPT !.store = setGateway(@, [running |-> TRUE])]

onDisconnect(w) == [w EXCEPT !.store = setGateway(@, [running |-> FALSE])]

onAgentStatus(w, payload) ==
  [w EXCEPT !.store = updateAgent(@, payload.agentId, Without(payload, {"agentId"}))]

onLogEntry(w, payload) == [w EXCEPT !.store = addLog(@, payload.entry)]

onSessionStart(w) ==
  LET next == w.bridge.activeSessions + 1
  IN [w EXCEPT !.bridge.activeSessions = next,
               !.store = setGateway(@, [activeSessions |-> next])]

onSessionEnd(w) ==
  LET next == IF w.bridge.activeSessions >= 1 THEN w.bridge.activeSessions - 1 ELSE 0
  IN [w EXCEPT !.bridge.activeSessions = next,
               !.store = setGateway(@, [activeSessions |-> next])]

onCronTriggered(w, payload) ==
  LET updatedJobs ==
        MapSeq(w.bridge.cronJobs,
               LAMBDA job : IF job.id = payload.jobId
                            THEN Merge(job, [lastRun |-> payload.triggeredAt])
                            ELSE job)
  IN [w EXCEPT !.bridge.cronJobs = updatedJobs, !.store = setCronJobs(@, updatedJobs)]

onCostUpdate(w, payload) ==
  LET next == Slice(<< payload.entry >> \o w.bridge.costEntries, COST_CAP)
  IN [w EXCEPT !.bridge.costEntries = next, !.store = setCostEntries(@, next)]

\* The bridge's listener of event ev, called with payload.
BridgeListener(w, ev, payload) ==
  IF ~w.bridge.mounted THEN w
  ELSE CASE ev = "connect" -> onConnect(w)
         [] ev = "disconnect" -> onDisconnect(w)
         [] ev = "agent.status" -> onAgentStatus(w, payload)
         [] ev = "log.entry" -> onLogEntry(w, payload)
         [] ev = "session.start" -> onSessionStart(w)
         [] ev = "session.end" -> onSessionEnd(w)
         [] ev = "cron.triggered" -> onCronTriggered(w, payload)
         [] ev = "cost.update" -> onCostUpdate(w, payload)
         [] OTHER -> w

\* The bridge's listeners among the invocations of a step, applied in order.
RECURSIVE BridgeApply(_, _, _)
BridgeApply(w, invs, payload) ==
  IF invs = << >> THEN w
  ELSE BridgeApply(IF Head(invs).cb = "bridge"
                   THEN BridgeListener(w, Head(invs).ev, payload)
                   ELSE w,
                   Tail(invs), payload)

\* The bridge's listener of event ev was invoked by the step.
BridgeCalled(invs, ev) ==
  \E i \in 1..Len(invs) : invs[i].cb = "bridge" /\ invs[i].ev = ev

-----------------------------------------------------------------------------
\* Number of events of a step that satisfy Test.
CountEvents(es, Test(_)) == Len(SelectSeq(es, Test))

IsReconnectFailed(e) == e.ev = "reconnect_failed"
IsReconnecting(e) == e.ev = "reconnecting"
IsHeartbeatTimeout(e) == e.ev = "heartbeat_timeout"
IsIntentionalDisconnect(e) == e.ev = "disconnect" /\ e.intentional
IsConnectOrStateChange(e) == e.ev \in {"connect", "state_change"}

\* Timers armed in the browser, with or without a handle held by the object.
PendingReconnectTimers ==
  (IF reconnectTimer = "armed" THEN 1 ELSE 0) + orphanReconnectTimers
PendingHeartbeatTimers ==
  (IF heartbeatTimer = "armed" THEN 1 ELSE 0) + orphanHeartbeatTimers
PendingHeartbeatTimeouts ==
  (IF heartbeatTimeoutTimer = "armed" THEN 1 ELSE 0) + orphanHeartbeatTimeouts

\* The sockets of the browser that can still deliver an event: the one
\* this.ws refers to and the detached ones.
Targets ==
  (IF ws.readyState \in {"NONE", "CLOSED"} THEN {}
   ELSE {[current |-> TRUE, sock |-> ws]})
  \cup {[current |-> FALSE, sock |-> d] : d \in BagToSet(detached)}

SocketCount == Cardinality({t \in Targets : t.current}) + BagCardinality(detached)

\* The browser changes the readyState of socket t before it runs a handler.
SetReadyState(m, t, rs) ==
  LET new == [t.sock EXCEPT !.readyState = rs] IN
  IF t.current THEN [m EXCEPT !.ws = new]
  ELSE [m EXCEPT !.detached = (@ (-) SetToBag({t.sock})) (+) SetToBag({new})]

\* A closed socket delivers nothing more: it stays only as long as this.ws
\* refers to it.
SetClosed(m, t) ==
  IF t.current THEN [m EXCEPT !.ws = [t.sock EXCEPT !.readyState = "CLOSED"]]
  ELSE [m EXCEPT !.detached = @ (-) SetToBag({t.sock})]

NoOp == [name |-> "init", current |-> FALSE, code |-> 0, frame |-> ""]

\* The step of the model: the memory r the handler left, and what the step was.
CommitFields(r, name, t, frame) ==
  /\ r.orphanReconnectTimers <= MaxOrphanTimers
  /\ r.orphanHeartbeatTimers <= MaxOrphanTimers
  /\ r.orphanHeartbeatTimeouts <= MaxOrphanTimers
  /\ state' = r.state
  /\ ws' = r.ws
  /\ detached' = r.detached
  /\ reconnectAttempts' = r.reconnectAttempts
  /\ reconnectTimer' = r.reconnectTimer
  /\ intentionalDisconnect' = r.intentionalDisconnect
  /\ heartbeatTimer' = r.heartbeatTimer
  /\ heartbeatTimeoutTimer' = r.heartbeatTimeoutTimer
  /\ orphanReconnectTimers' = r.orphanReconnectTimers
  /\ orphanHeartbeatTimers' = r.orphanHeartbeatTimers
  /\ orphanHeartbeatTimeouts' = r.orphanHeartbeatTimeouts
  /\ emitted' = r.emitted
  /\ sent' = r.sent
  /\ constructed' = r.constructed
  /\ uncaught' = r.uncaught
  /\ op' = [name |-> name, current |-> t.current, code |-> t.sock.closeCode,
            frame |-> frame]
  /\ afterDisconnect' = IF name = "disconnect" THEN TRUE
                        ELSE IF name = "connect" THEN FALSE
                        ELSE afterDisconnect
  /\ heartbeatStopped' = IF name \in {"disconnect", "close", "error"} THEN TRUE
                         ELSE IF name = "open" THEN FALSE
                         ELSE heartbeatStopped
  /\ failedInEpisode' =
       (IF name \in {"connect", "disconnect", "open"} THEN 0 ELSE failedInEpisode)
       + CountEvents(r.emitted, IsReconnectFailed)
  /\ awaitingPong' =
       IF name = "heartbeatInterval" /\ r.sent # << >> THEN TRUE
       ELSE IF name = "heartbeatTimeout" \/ frame = "pong" THEN FALSE
       ELSE awaitingPong
  /\ resumed' =
       IF name = "connect" THEN failedInEpisode > 0 /\ r.constructed > 0
       ELSE IF name \in {"send", "message", "heartbeatInterval", "teardown"} THEN resumed
       ELSE FALSE
  /\ invoked' = r.invoked
  /\ logged' = r.logged
  /\ UNCHANGED << maxReconnectAttempts, webSocketDefined, constructorThrows >>

\* No payload: an event of the connection itself, or a frame without one.
NoPayload == << >>

\* The listeners of the bridge that the step invoked run inside it.
BridgeStep(invs, payload) ==
  LET w == BridgeApply(World, invs, payload) IN
  /\ w.store.gateway.activeSessions <= MaxSessions
  /\ Len(w.store.costEntries) <= MaxEntries
  /\ store' = w.store
  /\ delivered' = payload
  /\ bridge' = w.bridge
  /\ startedFrom' =
       IF bridge.mounted /\ BridgeCalled(invs, "session.start")
       THEN [set |-> TRUE, value |-> store.gateway.activeSessions]
       ELSE [set |-> FALSE, value |-> 0]
  /\ logHistory' =
       IF bridge.mounted /\ BridgeCalled(invs, "log.entry")
       THEN [logHistory EXCEPT !.received = @ + 1]
       ELSE logHistory

\* A step of the connection: a method or a callback ran and left memory r.
CommitWith(r, name, t, frame, payload) ==
  /\ CommitFields(r, name, t, frame)
  /\ BridgeStep(r.invoked, payload)
  /\ UNCHANGED << listeners, handles >>

Commit(r, name, t, frame) == CommitWith(r, name, t, frame, NoPayload)

\* A step that is no socket event.
NoTarget == [current |-> FALSE, sock |-> NoSocket]

InitWith(max) ==
  /\ state = "disconnected"
  /\ ws = NoSocket
  /\ detached = EmptyBag
  /\ reconnectAttempts = 0
  /\ maxReconnectAttempts = max
  /\ reconnectTimer = "null"
  /\ intentionalDisconnect = FALSE
  /\ heartbeatTimer = "null"
  /\ heartbeatTimeoutTimer = "null"
  /\ orphanReconnectTimers = 0
  /\ orphanHeartbeatTimers = 0
  /\ orphanHeartbeatTimeouts = 0
  /\ webSocketDefined \in BOOLEAN
  /\ constructorThrows \in IF webSocketDefined THEN BOOLEAN ELSE {FALSE}
  /\ emitted = << >>
  /\ sent = << >>
  /\ constructed = 0
  /\ uncaught = FALSE
  /\ op = NoOp
  /\ afterDisconnect = FALSE
  /\ heartbeatStopped = FALSE
  /\ failedInEpisode = 0
  /\ awaitingPong = FALSE
  /\ resumed = FALSE
  /\ listeners = [e \in AllEvents |-> << >>]
  /\ handles = EmptyBag
  /\ invoked = << >>
  /\ logged = 0
  /\ store = [gateway |-> [running |-> FALSE, activeSessions |-> 0],
              agents |-> << >>, logs |-> << >>, costEntries |-> << >>,
              cronJobs |-> << >>]
  /\ bridge = [mounted |-> FALSE, activeSessions |-> 0, costEntries |-> << >>,
               cronJobs |-> << >>]
  /\ startedFrom = [set |-> FALSE, value |-> 0]
  /\ logHistory = [initial |-> 0, received |-> 0]
  /\ delivered = NoPayload

\* new GatewayConnection(url, MaxReconnectAttempts)
Init == InitWith(MaxReconnectAttempts)

-----------------------------------------------------------------------------
\* Public methods, called by the application at any time.

Connect ==
  \E jitter \in Jitters :
    /\ constructorThrows \/ SocketCount < MaxSockets
    /\ Commit(connect(Cur, webSocketDefined, constructorThrows, jitter),
              "connect", NoTarget, "")

Disconnect ==
  /\ TRUE
  /\ Commit(disconnect(Cur), "disconnect", NoTarget, "")

Send ==
  /\ TRUE
  /\ Commit(send(Cur), "send", NoTarget, "")

\* Socket events, delivered by the browser to the handlers of the socket they
\* belong to, whether or not this.ws still refers to it.

SocketOpen ==
  \E t \in Targets :
    /\ t.sock.readyState = "CONNECTING"
    /\ Commit(onopen(SetReadyState(Cur, t, "OPEN")), "open", t, "")

SocketMessage ==
  \E t \in Targets, frame \in LifecycleFrames :
    /\ t.sock.readyState = "OPEN"
    /\ Commit(_handleMessage(Cur, frame), "message", t, frame)

\* A failed connection (a handshake that fails, a connection that is lost, a
\* socket closed before it was established): one task of the browser sets the
\* readyState to CLOSED, dispatches the error event and then the close event.
SocketError ==
  \E t \in Targets, jitter \in Jitters :
    /\ t.sock.readyState \in {"CONNECTING", "OPEN", "CLOSING"}
    /\ Commit(onclose(onerror(SetClosed(Cur, t)), t.sock.closeCode, jitter),
              "error", t, "")

\* A connection closed without a failure, by the peer or after close(): the
\* task sets the readyState to CLOSED and dispatches the close event.
SocketClose ==
  \E t \in Targets, jitter \in Jitters :
    /\ t.sock.readyState \in {"OPEN", "CLOSING"}
    /\ Commit(onclose(SetClosed(Cur, t), t.sock.closeCode, jitter), "close", t, "")

\* Timers. A timeout fires once; the handle field keeps its value ("stale").

ReconnectTimerFires ==
  \E jitter \in Jitters, held \in BOOLEAN :
    /\ constructorThrows \/ SocketCount < MaxSockets
    /\ IF held THEN reconnectTimer = "armed" ELSE orphanReconnectTimers > 0
    /\ Commit(reconnectTimerCallback(
                IF held THEN [Cur EXCEPT !.reconnectTimer = "stale"]
                        ELSE [Cur EXCEPT !.orphanReconnectTimers = @ - 1],
                constructorThrows, jitter),
              "reconnectTimer", NoTarget, "")

\* HEARTBEAT_TIMEOUT_MS < HEARTBEAT_INTERVAL_MS: the timeout armed by one tick
\* of the interval is due before the next tick, so a tick finds none armed.
HeartbeatIntervalFires ==
  /\ HEARTBEAT_TIMEOUT_MS < HEARTBEAT_INTERVAL_MS
       => heartbeatTimeoutTimer # "armed" /\ orphanHeartbeatTimeouts = 0
  /\ heartbeatTimer = "armed" \/ orphanHeartbeatTimers > 0
  /\ Commit(heartbeatIntervalCallback(Cur), "heartbeatInterval", NoTarget, "")

HeartbeatTimeoutFires ==
  \E held \in BOOLEAN :
    /\ IF held THEN heartbeatTimeoutTimer = "armed" ELSE orphanHeartbeatTimeouts > 0
    /\ Commit(heartbeatTimeoutCallback(
                IF held THEN [Cur EXCEPT !.heartbeatTimeoutTimer = "stale"]
                        ELSE [Cur EXCEPT !.orphanHeartbeatTimeouts = @ - 1]),
              "heartbeatTimeout", NoTarget, "")

Next ==
  \/ Connect
  \/ Disconnect
  \/ Send
  \/ SocketOpen
  \/ SocketMessage
  \/ SocketError
  \/ SocketClose
  \/ ReconnectTimerFires
  \/ HeartbeatIntervalFires
  \/ HeartbeatTimeoutFires

Spec == Init /\ [][Next]_vars

\* new GatewayConnection(): the default maximum, and a peer that never
\* accepts a connection, so that no socket opens.
InitDefault == InitWith(MAX_RECONNECT_ATTEMPTS)

NextPeerDown ==
  \/ Connect
  \/ SocketError
  \/ ReconnectTimerFires

SpecPeerDown == InitDefault /\ [][NextPeerDown]_vars

TypeOK ==
  /\ state \in ConnectionState
  /\ reconnectAttempts \in 0..maxReconnectAttempts
  /\ ws.readyState # "CLOSED"
  /\ SocketCount <= MaxSockets

\* Attempt chains under way: every socket and every armed reconnect timer
\* carries one. Only connect() starts a chain; a timer that fires turns into
\* a socket, a socket that closes into a timer or into reconnect_failed.
Chains == SocketCount + PendingReconnectTimers

\* A step of the listener registry: no event is emitted and no field of the
\* connection changes.
RegistryStep(name) ==
  /\ op' = [name |-> name, current |-> FALSE, code |-> 0, frame |-> ""]
  /\ emitted' = << >>
  /\ sent' = << >>
  /\ constructed' = 0
  /\ uncaught' = FALSE
  /\ invoked' = << >>
  /\ logged' = 0
  /\ UNCHANGED << gatewayVars, webSocketDefined, constructorThrows, afterDisconnect,
                  heartbeatStopped, failedInEpisode, awaitingPong, resumed >>

\* A step that leaves the store and the bridge alone.
StoreUntouched ==
  /\ startedFrom' = [set |-> FALSE, value |-> 0]
  /\ delivered' = NoPayload
  /\ UNCHANGED << store, bridge, logHistory >>

\* on(event, callback) / onEvent(eventType, callback)
On ==
  \E event \in ListenerEvents, callback \in Callbacks :
    /\ BagCardinality(handles) < MaxListeners
    /\ listeners' = _on(listeners, event, callback)
    /\ handles' = handles (+) SetToBag({[event |-> event, cb |-> callback]})
    /\ RegistryStep("on")
    /\ StoreUntouched

\* The application calls an unsubscribe function it was given.
Unsubscribe ==
  \E h \in BagToSet(handles) :
    /\ listeners' = unsubscribe(listeners, h.event, h.cb)
    /\ handles' = handles (-) SetToBag({h})
    /\ RegistryStep("unsubscribe")
    /\ StoreUntouched

\* ws.onmessage with any frame the peer can send.
SocketFrame ==
  \E t \in Targets, frame \in Frames :
    /\ t.sock.readyState = "OPEN"
    /\ Commit(_handleMessage(Cur, frame), "message", t, frame)

\* The connection with its listeners and every kind of inbound frame: one
\* connection at a time (connect() is called when no socket and no reconnect
\* timer is under way); the heartbeat sends its pings, and no timeout fires.
NextWire ==
  \/ On
  \/ Unsubscribe
  \/ Chains = 0 /\ Connect
  \/ Disconnect
  \/ SocketOpen
  \/ SocketFrame
  \/ SocketClose
  \/ HeartbeatIntervalFires

SpecWire == Init /\ [][NextWire]_vars

-----------------------------------------------------------------------------
\* The store bridge and the other writers of the store.

\* The records the other writers put into the store.
Agent1 == [id |-> "a1", name |-> "Froggy", status |-> "online", currentTask |-> "none"]
Agent2 == [id |-> "a2", name |-> "Toad", status |-> "online", currentTask |-> "none"]
Job1 == [id |-> "j1", lastRun |-> "never", enabled |-> TRUE]

\* Domain envelopes the peer sends, and the payloads of each.
BridgeFrames == {"session.start", "session.end", "cron.triggered", "cost.update"}

Payloads(frame) ==
  CASE frame = "agent.status" ->
         {[agentId |-> id, status |-> s] : id \in {"a1", "ghost"},
                                           s \in {"online", "busy"}}
         \cup {[agentId |-> "a1", status |-> "busy", currentTask |-> "t1"]}
    [] frame = "cron.triggered" ->
         {[jobId |-> j, triggeredAt |-> "now"] : j \in {"j1", "ghost"}}
    [] frame = "cost.update" -> {[entry |-> "wire"]}
    [] OTHER -> {NoPayload}

\* gateway.on / gateway.onEvent for every event of the bridge, in one effect.
RECURSIVE RegisterAll(_, _)
RegisterAll(ls, events) ==
  IF events = {} THEN ls
  ELSE LET e == CHOOSE x \in events : TRUE
       IN RegisterAll(_on(ls, e, "bridge"), events \ {e})

RECURSIVE UnsubscribeAll(_, _)
UnsubscribeAll(ls, events) ==
  IF events = {} THEN ls
  ELSE LET e == CHOOSE x \in events : TRUE
       IN UnsubscribeAll(unsubscribe(ls, e, "bridge"), events \ {e})

BridgeHandles == SetToBag({[event |-> e, cb |-> "bridge"] : e \in BridgeEvents})

\* A cleanup that also calls gateway.disconnect().
cleanup_disconnects(m) ==
  disconnect([m EXCEPT !.listeners = UnsubscribeAll(@, BridgeEvents)])

\* What the effect's cleanup does to the connection: for (const unsub of unsubs) unsub().
cleanup(m) == [m EXCEPT !.listeners = UnsubscribeAll(@, BridgeEvents)]

\* The component mounts: the refs take the values of the first render, the
\* effect sets mountedRef, calls gateway.connect() and registers the listeners.
Mount ==
  \E jitter \in Jitters :
    /\ ~bridge.mounted
    /\ constructorThrows \/ SocketCount < MaxSockets
    /\ CommitFields(connect(Cur, webSocketDefined, constructorThrows, jitter),
                    "connect", NoTarget, "")
    /\ listeners' = RegisterAll(listeners, BridgeEvents)
    /\ handles' = handles (+) BridgeHandles
    /\ bridge' = [mounted |-> TRUE,
                  activeSessions |-> store.gateway.activeSessions,
                  costEntries |-> store.costEntries,
                  cronJobs |-> store.cronJobs]
    /\ startedFrom' = [set |-> FALSE, value |-> 0]
    /\ delivered' = NoPayload
    /\ UNCHANGED << store, logHistory >>

\* The effect's cleanup: mountedRef is cleared and every unsubscribe function
\* is called; gateway.disconnect() is not.
Teardown ==
  /\ bridge.mounted
  /\ LET r == cleanup(Cur)
     IN /\ CommitFields(r, "teardown", NoTarget, "")
        /\ listeners' = r.listeners
  /\ handles' = handles (-) BridgeHandles
  /\ bridge' = [bridge EXCEPT !.mounted = FALSE]
  /\ startedFrom' = [set |-> FALSE, value |-> 0]
  /\ delivered' = NoPayload
  /\ UNCHANGED << store, logHistory >>

\* ws.onmessage with a domain envelope.
BridgeFrame ==
  \E t \in Targets, frame \in BridgeFrames :
    \E payload \in Payloads(frame) :
      /\ t.sock.readyState = "OPEN"
      /\ CommitWith(_handleMessage(Cur, frame), "message", t, frame, payload)

\* ws.onmessage with an agent.status envelope.
AgentStatusFrame ==
  \E t \in Targets :
    \E payload \in Payloads("agent.status") :
      /\ t.sock.readyState = "OPEN"
      /\ CommitWith(_handleMessage(Cur, "agent.status"), "message", t, "agent.status",
                    payload)

\* ws.onmessage with a log.entry envelope; entries are numbered as they arrive.
LogEntryFrame ==
  \E t \in Targets :
    /\ t.sock.readyState = "OPEN"
    /\ logHistory.received < MaxLogEvents
    /\ CommitWith(_handleMessage(Cur, "log.entry"), "message", t, "log.entry",
                  [entry |-> logHistory.received + 1])

\* A write to the store by a writer other than the bridge.
OtherWrite(name, s) ==
  /\ store' = s
  /\ startedFrom' = [set |-> FALSE, value |-> 0]
  /\ delivered' = NoPayload
  /\ UNCHANGED << bridge, listeners, handles >>
  /\ RegistryStep(name)

\* hydrate (set({ gateway })) or setGateway from a component.
SetGatewayOther ==
  \E n \in 0..MaxSessions :
    /\ n # store.gateway.activeSessions
    /\ OtherWrite("setGateway", setGateway(store, [activeSessions |-> n]))
    /\ UNCHANGED logHistory

\* hydrate (set({ costEntries })).
SetCostEntriesOther ==
  /\ store.costEntries = << >>
  /\ OtherWrite("setCostEntries", setCostEntries(store, << "api" >> \o store.costEntries))
  /\ UNCHANGED logHistory

\* hydrate (set({ cronJobs })), or the cron page adding a job.
SetCronJobsOther ==
  /\ store.cronJobs = << >>
  /\ OtherWrite("setCronJobs", setCronJobs(store, store.cronJobs \o << Job1 >>))
  /\ UNCHANGED logHistory

\* hydrate (set({ agents })).
SetAgentsOther ==
  /\ store.agents = << >>
  /\ OtherWrite("setAgents", [store EXCEPT !.agents = << Agent1, Agent2 >>])
  /\ UNCHANGED logHistory

\* hydrate (set({ logs })): the list the API returned, older than any event.
SetLogsOther ==
  \E n \in {0, MaxEntries} :
    /\ OtherWrite("setLogs", [store EXCEPT !.logs = [i \in 1..n |-> 0]])
    /\ logHistory' = [initial |-> n, received |-> 0]

\* The three effects that copy the rendered store values into the refs; they
\* run after the render that follows a change of the store.
RefEffects ==
  /\ bridge.mounted
  /\ \/ bridge.activeSessions # store.gateway.activeSessions
     \/ bridge.costEntries # store.costEntries
     \/ bridge.cronJobs # store.cronJobs
  /\ bridge' = [bridge EXCEPT !.activeSessions = store.gateway.activeSessions,
                              !.costEntries = store.costEntries,
                              !.cronJobs = store.cronJobs]
  /\ startedFrom' = [set |-> FALSE, value |-> 0]
  /\ delivered' = NoPayload
  /\ UNCHANGED << store, logHistory, listeners, handles >>
  /\ RegistryStep("refEffects")

NextBridge ==
  \/ Mount
  \/ Teardown
  \/ SocketOpen
  \/ BridgeFrame
  \/ SocketClose
  \/ SetGatewayOther
  \/ SetCostEntriesOther
  \/ SetCronJobsOther
  \/ RefEffects

SpecBridge == Init /\ [][NextBridge]_vars

NextAgents ==
  \/ Mount
  \/ Teardown
  \/ SocketOpen
  \/ SocketClose
  \/ AgentStatusFrame
  \/ SetAgentsOther

SpecAgents == Init /\ [][NextAgents]_vars

NextLogs ==
  \/ Mount
  \/ SocketOpen
  \/ LogEntryFrame
  \/ SetLogsOther

SpecLogs == Init /\ [][NextLogs]_vars

\* The close event of a socket on which close(1001) was called: the browser
\* delivers it when the closing handshake ends or times out.
HeartbeatClosedSocketCloses ==
  \E t \in Targets, jitter \in Jitters :
    /\ t.sock.readyState = "CLOSING"
    /\ t.sock.closeCode = CLOSE_HEARTBEAT
    /\ Commit(onclose(SetClosed(Cur, t), t.sock.closeCode, jitter), "close", t, "")

\* The application never calls disconnect(); timers that are due fire and
\* sockets that are closing deliver their close event.
NextNoDisconnect ==
  \/ Chains < MaxSockets /\ Connect
  \/ SocketOpen
  \/ SocketMessage
  \/ SocketError
  \/ SocketClose
  \/ ReconnectTimerFires
  \/ HeartbeatIntervalFires
  \/ HeartbeatTimeoutFires

SpecNoDisconnect ==
  /\ Init
  /\ [][NextNoDisconnect]_vars
  /\ WF_vars(HeartbeatClosedSocketCloses)
  /\ WF_vars(HeartbeatTimeoutFires)
  /\ WF_vars(ReconnectTimerFires)

\* A socket that is connecting opens, or its handshake fails.
ConnectingSocketResolves ==
  \/ SocketOpen
  \/ \E t \in Targets, jitter \in Jitters :
       /\ t.sock.readyState = "CONNECTING"
       /\ Commit(onclose(onerror(SetClosed(Cur, t)), t.sock.closeCode, jitter),
                 "error", t, "")

\* The application never calls disconnect(); every socket that is connecting
\* opens or fails, every socket closed by the heartbeat delivers its close
\* event and every reconnect timer fires.
SpecFairAttempts ==
  /\ Init
  /\ [][NextNoDisconnect]_vars
  /\ WF_vars(ConnectingSocketResolves)
  /\ WF_vars(HeartbeatClosedSocketCloses)
  /\ WF_vars(ReconnectTimerFires)

-----------------------------------------------------------------------------
\* Sockets that are connecting or open.
LiveSockets ==
  Cardinality({t \in Targets : t.current /\ t.sock.readyState \in {"CONNECTING", "OPEN"}})
  + BagCardinality([d \in {x \in BagToSet(detached) :
                             x.readyState \in {"CONNECTING", "OPEN"}} |-> detached[d]])

\* C1: every disconnect() results in exactly one disconnect event with
\* intentional = true: disconnect() emits one itself, so the close callback of
\* the socket it closed (the socket closed with code 1000) must emit none.
C1_ExactlyOneIntentionalDisconnect ==
  /\ op.name = "disconnect" => CountEvents(emitted, IsIntentionalDisconnect) = 1
  /\ op.name \in {"close", "error"} /\ op.code = CLOSE_NORMAL
       => 1 + CountEvents(emitted, IsIntentionalDisconnect) = 1

\* C2: after disconnect() has returned and until connect() is called, no step
\* (timer firing, socket callback) constructs a socket or emits reconnecting.
C2_NoReconnectAfterDisconnect ==
  afterDisconnect => constructed = 0 /\ CountEvents(emitted, IsReconnecting) = 0

\* C2 witness: a reconnect timer that was still armed fired after disconnect().
C2_Witness == afterDisconnect /\ op.name = "reconnectTimer"

\* C3: there is never more than one socket that is connecting or open.
C3_AtMostOneLiveSocket == LiveSockets <= 1

\* C4: connect() in state connecting or connected constructs no socket, emits
\* no connect and no state_change event, and changes no field and no timer.
C4_ConnectIdempotent ==
  [][(op'.name = "connect" /\ state \in {"connecting", "connected"})
       => /\ constructed' = 0
          /\ CountEvents(emitted', IsConnectOrStateChange) = 0
          /\ UNCHANGED gatewayVars]_vars

\* C4 witness: connect() was called while connected.
C4_Witness == op.name = "connect" /\ state = "connected" /\ emitted = << >>

\* C5: at most one reconnect timer and at most one heartbeat timeout are armed.
C5_AtMostOnePendingTimer ==
  PendingReconnectTimers <= 1 /\ PendingHeartbeatTimeouts <= 1

\* C6: in a failure episode (since the last connect(), with no open and no
\* disconnect()), once the counter has reached the maximum and every scheduled
\* attempt has failed (no reconnect timer armed, no socket left), exactly one
\* reconnect_failed event has been emitted.
C6_ExactlyOneReconnectFailed ==
  (/\ ~afterDisconnect
   /\ reconnectAttempts >= maxReconnectAttempts
   /\ PendingReconnectTimers = 0
   /\ SocketCount = 0)
    => failedInEpisode = 1

\* C7: every reconnecting event carries the counter's previous value plus one
\* and leaves the counter at that value; the counter changes only by such an
\* increment or by a socket open, which sets it to 0.
C7_AttemptCounter ==
  [][/\ \A i \in 1..Len(emitted') :
          emitted'[i].ev = "reconnecting"
            => /\ emitted'[i].attempt = reconnectAttempts + 1
               /\ reconnectAttempts' = reconnectAttempts + 1
     /\ reconnectAttempts' # reconnectAttempts
          => \/ reconnectAttempts' = 0 /\ op'.name = "open"
             \/ /\ reconnectAttempts' = reconnectAttempts + 1
                /\ CountEvents(emitted', IsReconnecting) = 1
     /\ op'.name = "open" => reconnectAttempts' = 0]_vars

\* C7 witness: the second reconnecting event of an episode, after a close.
C7_Witness ==
  /\ op.name \in {"close", "error"}
  /\ \E i \in 1..Len(emitted) : emitted[i].ev = "reconnecting" /\ emitted[i].attempt = 2

\* The claimed lower bound of the delay of attempt n.
ClaimedBase(n) == IF 1000 * 2^(n - 1) <= 30000 THEN 1000 * 2^(n - 1) ELSE 30000

\* C8: the delay of attempt n lies in [ClaimedBase(n), ClaimedBase(n) + 500],
\* the lower bound is non-decreasing in n, and the delay is at most 30500.
C8_BackoffDelay ==
  /\ \A i \in 1..Len(emitted) :
       emitted[i].ev = "reconnecting"
         => /\ emitted[i].attempt \in 1..MAX_RECONNECT_ATTEMPTS
            /\ emitted[i].delay >= ClaimedBase(emitted[i].attempt)
            /\ emitted[i].delay <= ClaimedBase(emitted[i].attempt) + 500
            /\ emitted[i].delay <= 30500
  /\ \A n \in 1..(MAX_RECONNECT_ATTEMPTS - 1) : ClaimedBase(n) <= ClaimedBase(n + 1)

\* C8 witness: the last attempt, whose delay is clamped.
C8_Witness ==
  \E i \in 1..Len(emitted) :
    /\ emitted[i].ev = "reconnecting"
    /\ emitted[i].attempt = MAX_RECONNECT_ATTEMPTS
    /\ emitted[i].delay >= 30000

\* C10: after disconnect() or a close callback, until a socket opens, no
\* heartbeat interval and no heartbeat timeout is armed, no ping is sent and
\* no heartbeat_timeout event is emitted.
C10_HeartbeatCancelled ==
  heartbeatStopped
    => /\ PendingHeartbeatTimers = 0
       /\ PendingHeartbeatTimeouts = 0
       /\ sent = << >> \/ op.name = "send"
       /\ CountEvents(emitted, IsHeartbeatTimeout) = 0

\* C10 witness: the close callback of a socket closed by a heartbeat timeout:
\* the heartbeat was running when the callback ran.
C10_Witness == heartbeatStopped /\ op.name = "close" /\ op.code = CLOSE_HEARTBEAT

ClosePathTaken ==
  /\ op.name \in {"close", "error"}
  /\ op.code = CLOSE_HEARTBEAT
  /\ \E i, j \in 1..Len(emitted) :
       /\ i < j
       /\ emitted[i].ev = "disconnect" /\ ~emitted[i].intentional
       /\ emitted[j].ev \in {"reconnecting", "reconnect_failed"}

Invocations(ev, arg) ==
  Len(SelectSeq(invoked, LAMBDA i : i.ev = ev /\ i.arg = arg))

\* Listeners registered for event name ev.
Registered(ev) == IF ev \in DOMAIN listeners THEN Len(listeners[ev]) ELSE 0

\* C12: a frame that is not JSON gives exactly one raw_message event carrying
\* the data, no message event and no type-specific event, and changes no
\* field of the connection.
C12_MalformedFrame ==
  [][(op'.name = "message" /\ op'.frame = "not_json")
       => /\ Len(emitted') = 1
          /\ emitted'[1].ev = "raw_message" /\ emitted'[1].arg = "data"
          /\ Len(invoked') = Registered("raw_message")
          /\ \A i \in 1..Len(invoked') : invoked'[i].ev = "raw_message"
          /\ ~uncaught'
          /\ UNCHANGED gatewayVars]_vars

\* C12 witness: a malformed frame arrived and a raw_message listener was called.
C12_Witness ==
  op.name = "message" /\ op.frame = "not_json" /\ Invocations("raw_message", "data") = 1

\* Invocations of callback cb by the last step for event ev with argument arg.
InvocationsOf(cb, ev, arg) ==
  Len(SelectSeq(invoked, LAMBDA i : i.cb = cb /\ i.ev = ev /\ i.arg = arg))

\* cb is in the Set of event ev.
IsRegistered(cb, ev) ==
  ev \in DOMAIN listeners /\ \E i \in 1..Len(listeners[ev]) : listeners[ev][i] = cb

\* C13: a pong frame is never forwarded: the step that handles it emits no
\* event and invokes no listener, of pong, of message or of any other name.
C13_PongNotForwarded ==
  (op.name = "message" /\ op.frame = "pong") => emitted = << >> /\ invoked = << >>

\* C13 witness: a pong arrived while listeners for pong and for message were
\* registered.
C13_Witness ==
  /\ op.name = "message" /\ op.frame = "pong"
  /\ Registered("pong") > 0 /\ Registered("message") > 0

\* Well-formed envelopes whose type is not pong; the type of each.
EnvelopeFrames == {"agent.status", "disconnect", "message"}

LifecycleEvents == {"connect", "disconnect", "reconnecting", "reconnect_failed",
                    "heartbeat_timeout", "state_change", "error", "raw_message"}

\* C15: the handling of a frame the peer sent (a frame that parsed: the
\* raw_message of a frame that did not is the connection's own report)
\* invokes no listener of a lifecycle event.
C15_NoLifecycleFromWire ==
  (op.name = "message" /\ op.frame # "not_json")
    => \A i \in 1..Len(invoked) : invoked[i].ev \notin LifecycleEvents

\* Listener invocations due for a sequence of emitted events.
RECURSIVE Due(_)
Due(es) ==
  IF es = << >> THEN << >>
  ELSE (IF Head(es).ev \in DOMAIN listeners
        THEN [i \in 1..Len(listeners[Head(es).ev]) |->
                [cb |-> listeners[Head(es).ev][i], ev |-> Head(es).ev, arg |-> Head(es).arg]]
        ELSE << >>) \o Due(Tail(es))

\* The connection's fields in memory m.
Fields(m) ==
  << m.state, m.ws, m.detached, m.reconnectAttempts, m.maxReconnectAttempts,
     m.reconnectTimer, m.intentionalDisconnect, m.heartbeatTimer,
     m.heartbeatTimeoutTimer, m.orphanReconnectTimers, m.orphanHeartbeatTimers,
     m.orphanHeartbeatTimeouts >>

\* The current memory with no listener registered.
CurUnobserved == [Cur EXCEPT !.listeners = [e \in AllEvents |-> << >>]]

\* C16: a step in which a listener throws still invokes every listener due
\* for every event it emits, lets no exception out of the emission, and (for
\* disconnect() and for an inbound frame) leaves the connection's fields as
\* the same step leaves them when nobody listens.
C16_ListenerIsolation ==
  [][(\E i \in 1..Len(invoked') : Throws(invoked'[i].cb))
       => /\ invoked' = Due(emitted')
          /\ logged' = Len(SelectSeq(invoked', LAMBDA i : Throws(i.cb)))
          /\ ~uncaught'
          /\ op'.name = "disconnect" => gatewayVars' = Fields(disconnect(CurUnobserved))
          /\ op'.name = "message"
               => gatewayVars' = Fields(_handleMessage(CurUnobserved, op'.frame))]_vars

\* C16 witness: disconnect() emitted disconnect; the first listener threw and
\* the second was invoked after it.
C16_Witness ==
  /\ op.name = "disconnect"
  /\ Len(invoked) = 2
  /\ invoked[1].cb = "cbThrows" /\ invoked[2].cb = "cb"
  /\ logged = 1 /\ ~uncaught

\* C17: every unsubscribe function that was returned and not yet called
\* stands for a registration: its callback is still registered for its event.
C17_OneHandleOneRegistration ==
  \A h \in BagToSet(handles) : IsRegistered(h.cb, h.event)

\* The elements of seq that are in S, in the order of seq.
Restrict(seq, S) == SelectSeq(seq, LAMBDA c : c \in S)
Members(seq) == {seq[i] : i \in 1..Len(seq)}

\* C18: listeners of one event are invoked in the order of their
\* registration: a registration joins after those present, an unsubscription
\* keeps the order of the others, and an emission calls them in that order.
C18_RegistrationOrder ==
  [][/\ op'.name = "on"
          => \A e \in ListenerEvents : SubSeq(listeners'[e], 1, Len(listeners[e])) = listeners[e]
     /\ op'.name = "unsubscribe"
          => \A e \in ListenerEvents :
               listeners'[e] = Restrict(listeners[e], Members(listeners'[e]))
     /\ invoked' = Due(emitted')]_vars

\* C18 witness: after an unsubscription and a new registration, two listeners
\* of message were invoked, the one registered last after the other.
C18_Witness ==
  /\ op.name = "message"
  /\ listeners["message"] = << "cb", "cbThrows" >>
  /\ BagCardinality(handles) = 2
  /\ Len(invoked) = 2 /\ invoked[1].cb = "cb" /\ invoked[2].cb = "cbThrows"

\* C19: send() in a state other than connected hands no frame to a socket,
\* does not throw, emits nothing and changes no field, socket or timer.
C19_SendWhenNotConnected ==
  [][(op'.name = "send" /\ state # "connected")
       => /\ sent' = << >>
          /\ emitted' = << >>
          /\ ~uncaught'
          /\ UNCHANGED gatewayVars]_vars

\* C19 witness: send() was called while a socket was connecting.
C19_Witness ==
  /\ op.name = "send"
  /\ state = "connecting" /\ ws.readyState = "CONNECTING"
  /\ sent = << >>

\* C20: the message callback never ends by throwing, whatever the frame.
C20_MessageCallbackNeverThrows == op.name = "message" => ~uncaught

\* The states a step passes through: the state before it and the state of
\* every state_change event it emits.
RECURSIVE StateChanges(_)
StateChanges(es) ==
  IF es = << >> THEN << >>
  ELSE (IF Head(es).ev = "state_change" THEN << Head(es).state >> ELSE << >>)
       \o StateChanges(Tail(es))

\* The transitions of the specified state machine; a new attempt may also
\* start from error, where a failed construction leaves the state.
SpecifiedTransitions ==
  { << "disconnected", "connecting" >>, << "error", "connecting" >>,
    << "connecting", "connected" >>, << "connecting", "error" >>,
    << "connected", "disconnected" >>, << "error", "disconnected" >> }

\* C21: every change of the state is a transition of the specified state
\* machine, or a change to disconnected made by disconnect(); in particular
\* the state never moves from connected to error.
C21_SpecifiedTransitions ==
  [][LET path == << state >> \o StateChanges(emitted')
     IN \A i \in 1..(Len(path) - 1) :
          \/ path[i] = path[i + 1]
          \/ << path[i], path[i + 1] >> \in SpecifiedTransitions
          \/ op'.name = "disconnect" /\ path[i + 1] = "disconnected"]_vars

\* The bridge handled event ev in the step.
Handled(ev) == bridge.mounted /\ BridgeCalled(invoked', ev)

\* C22: a session.end handled right after a session.start puts the counter of
\* the store back to its value before the two events, a session.end at
\* counter 0 leaves it at 0, and the counter is never negative.
C22_SessionCounter ==
  [][/\ store'.gateway.activeSessions >= 0
     /\ Handled("session.end") /\ startedFrom.set
          => store'.gateway.activeSessions = startedFrom.value
     /\ Handled("session.end") /\ store.gateway.activeSessions = 0
          => store'.gateway.activeSessions = 0]_vars

\* C23: after N log.entry events the list of logs has length
\* min(N + initial length, 500) and begins with the entries received, most
\* recent first; once more than 500 were received it holds exactly the 500
\* most recent ones.
C23_LogsCapped ==
  LET N == logHistory.received
      kept == Min(N, LOG_CAP)
  IN /\ Len(store.logs) = Min(N + logHistory.initial, LOG_CAP)
     /\ \A i \in 1..kept : store.logs[i] = N - i + 1
     /\ \A i \in (kept + 1)..Len(store.logs) : store.logs[i] = 0
     /\ N > LOG_CAP => store.logs = [i \in 1..LOG_CAP |-> N - i + 1]

\* C23 witness: more than 500 entries were received on top of a hydrated
\* list, and the list holds the 500 most recent.
C23_Witness ==
  /\ logHistory.received > LOG_CAP
  /\ logHistory.initial > 0
  /\ Len(store.logs) = LOG_CAP
  /\ store.logs[1] = logHistory.received
  /\ store.logs[LOG_CAP] = logHistory.received - LOG_CAP + 1

\* The fields an agent.status payload carries besides the agent's id.
Carried(payload) == DOMAIN payload \ {"agentId"}

\* C24: an agent.status event the bridge handles changes, on the record whose
\* id is the event's agentId, the fields the event carries and nothing else,
\* leaves every other record as it was, and neither adds nor removes a
\* record; for an unknown agentId the collection is unchanged.
C24_AgentStatus ==
  [][Handled("agent.status")
       => LET before == store.agents
              after == store'.agents
              p == delivered'
          IN /\ Len(after) = Len(before)
             /\ \A i \in 1..Len(before) :
                  IF before[i].id = p.agentId
                  THEN /\ DOMAIN after[i] = DOMAIN before[i]
                       /\ \A k \in DOMAIN before[i] :
                            after[i][k] = IF k \in Carried(p) THEN p[k] ELSE before[i][k]
                  ELSE after[i] = before[i]
             /\ (\A i \in 1..Len(before) : before[i].id # p.agentId) => after = before]_vars

\* C24 witness: the bridge handled an agent.status event for a1 that carried
\* status and currentTask; a1's name is as hydrated and a2 is untouched.
C24_Witness ==
  /\ op.frame = "agent.status" /\ bridge.mounted
  /\ BridgeCalled(invoked, "agent.status")
  /\ delivered = [agentId |-> "a1", status |-> "busy", currentTask |-> "t1"]
  /\ store.agents = << Merge(Agent1, [status |-> "busy", currentTask |-> "t1"]), Agent2 >>

\* C24 witness: the bridge handled an agent.status event for an agent the
\* collection does not hold.
C24_WitnessUnknown ==
  /\ op.frame = "agent.status" /\ bridge.mounted
  /\ BridgeCalled(invoked, "agent.status")
  /\ delivered.agentId = "ghost"
  /\ store.agents = << Agent1, Agent2 >>

\* C25: every session.start, session.end, cost.update and cron.triggered
\* event the bridge handles computes its result from the value the store
\* holds when the event arrives, whatever other writers did before.
C25_NoStaleSnapshot ==
  [][/\ Handled("session.start")
          => store'.gateway.activeSessions = store.gateway.activeSessions + 1
     /\ Handled("session.end")
          => store'.gateway.activeSessions =
               IF store.gateway.activeSessions >= 1
               THEN store.gateway.activeSessions - 1 ELSE 0
     /\ Handled("cost.update")
          => store'.costEntries =
               Slice(<< delivered'.entry >> \o store.costEntries, COST_CAP)
     /\ Handled("cron.triggered")
          => /\ Len(store'.cronJobs) = Len(store.cronJobs)
             /\ \A i \in 1..Len(store.cronJobs) :
                  store'.cronJobs[i] =
                    IF store.cronJobs[i].id = delivered'.jobId
                    THEN Merge(store.cronJobs[i], [lastRun |-> delivered'.triggeredAt])
                    ELSE store.cronJobs[i]]_vars

\* C26: the teardown of the bridge unsubscribes every listener the bridge
\* registered and leaves the state, the socket and the timers of the
\* connection as they were, emitting nothing; while the bridge is torn down
\* no event of the connection changes the store.
C26_Teardown ==
  [][/\ op'.name = "teardown"
          => /\ UNCHANGED << gatewayVars, store >>
             /\ emitted' = << >> /\ sent' = << >>
             /\ \A e \in BridgeEvents :
                  \A i \in 1..Len(listeners'[e]) : listeners'[e][i] # "bridge"
     /\ ~bridge.mounted /\ emitted' # << >> => store' = store]_vars

\* C26 witness: after the teardown the connection is still connected on an
\* open socket with its heartbeat running, and a session.start envelope that
\* arrived was forwarded to no listener of the bridge and left the store alone.
C26_Witness ==
  /\ ~bridge.mounted
  /\ state = "connected" /\ ws.readyState = "OPEN" /\ heartbeatTimer # "null"
  /\ op.name = "message" /\ op.frame = "session.start"
  /\ emitted # << >> /\ invoked = << >>
  /\ store.gateway.activeSessions = 0

\* C27: when connect() opened a socket after a reconnect_failed event and
\* that socket fails before it ever opens, a new attempt is scheduled: a
\* reconnecting event is emitted and the reconnect timer is set.
C27_ManualConnectResumes ==
  [][(resumed /\ state = "connecting" /\ op'.name \in {"close", "error"} /\ op'.current)
       => /\ CountEvents(emitted', IsReconnecting) > 0
          /\ reconnectTimer' # "null"]_vars

\* C28: when disconnect() was followed by connect(), the close callback of
\* the socket that disconnect() closed, running late, leaves the handle of the
\* new socket, the heartbeat timer, the state and the reconnect timer as they
\* are and emits no reconnecting event.
C28_LateCloseHarmless ==
  [][(/\ op'.name = "close" /\ op'.code = CLOSE_NORMAL /\ ~op'.current
      /\ ~afterDisconnect /\ ws # NoSocket)
       => /\ ws' = ws
          /\ heartbeatTimer' = heartbeatTimer
          /\ state' = state
          /\ reconnectTimer' = reconnectTimer
          /\ CountEvents(emitted', IsReconnecting) = 0]_vars

\* C29: in state connected the connection holds a socket, and that socket is
\* one that has opened (it is open, or closing after the heartbeat timed out),
\* not one that is still connecting while another socket's open callback set
\* the state.
C29_StatusAgreesWithTransport ==
  state = "connected" => ws # NoSocket /\ ws.readyState \in {"OPEN", "CLOSING"}

\* The connection is established, or the last step gave up reconnecting.
ConnectedOrGaveUp ==
  state = "connected" \/ CountEvents(emitted, IsReconnectFailed) > 0

\* C30: where WebSocket exists and disconnect() is never called, a connect()
\* is followed by the state connected or by a reconnect_failed event, provided
\* every connecting socket opens or fails and every reconnect timer fires.
C30_NeverStuck == (webSocketDefined /\ op.name = "connect") ~> ConnectedOrGaveUp

\* C30 witness: the attempts that followed a connect() were used up and the
\* last failure emitted reconnect_failed.
C30_Witness ==
  /\ webSocketDefined /\ ~afterDisconnect
  /\ op.name = "error" /\ state = "disconnected"
  /\ reconnectAttempts = maxReconnectAttempts
  /\ CountEvents(emitted, IsReconnectFailed) > 0

====
